---------------------------- MODULE Spec2Model ----------------------------
(***************************************************************************)
(* Model of DeltaHedger (src/DeltaHedger.py): the restriction registry     *)
(* (add_restriction, is_allowed_option) and the greedy optimizer           *)
(* find_optimal_portfolio_adjustment with execute_adjustments.             *)
(*                                                                         *)
(* Deltas, gammas and the threshold are fixed-point numbers counted in     *)
(* hundredths (0.02 is 2); a score is counted in thousandths, so that      *)
(* 2*|d| + 3*|g| + 0.1*q is 20*|d| + 30*|g| + 100*q.  Quotients are exact  *)
(* rationals, not IEEE doubles.                                            *)
(***************************************************************************)
EXTENDS Integers, Sequences, FiniteSets, Bags, TLC

(***************************************************************************)
(* Python's None and a present value, for an optional field.               *)
(***************************************************************************)
None == <<>>

Some(x) == <<x>>

\* ------------------------------------------------------------------ bounds

\* add_restriction is called at most this many times in a behaviour.
MaxAdds == 3

\* The broker's portfolio holds at most this many positions.
MaxPositions == 2

\* ----------------------------------------------------------- input domains

Strikes == {100, 105}

Expirations == {"20240119", "20240216"}

Rights == {"C", "P"}

\* Every rule add_restriction can be given: each field a value or None.
AllRules ==
    { <<s, e, t>> : s \in {None} \cup {Some(x) : x \in Strikes},
                    e \in {None} \cup {Some(x) : x \in Expirations},
                    t \in {None} \cup {Some(x) : x \in Rights} }

\* Every concrete (strike, expiration, option_type) is_allowed_option is asked.
AllQueries == Strikes \X Expirations \X Rights

\* The rules given while the hedger plans.
HedgeRules ==
    { <<None, Some("20240119"), Some("C")>>, <<Some(105), None, None>> }

\* delta_threshold as given to the constructor: the default 0.02, zero, -0.01.
Thresholds == {2, 0, -1}

\* current_delta as given to find_optimal_portfolio_adjustment.
CurrentDeltas == {-7, 1, 107}

Option(symbol, expiration, strike, right) ==
    [symbol |-> symbol, secType |-> "OPT", strike |-> strike,
     lastTradeDateOrContractMonth |-> expiration, right |-> right]

Stock(symbol) ==
    [symbol |-> symbol, secType |-> "STK", strike |-> 0,
     lastTradeDateOrContractMonth |-> "", right |-> ""]

\* What reqSecDefOptParams answers for the SMART exchange, in its order.
ChainStrikes == <<100>>

ChainExpirations == <<"20240119">>

ChainRights == <<"C", "P">>

\* One item of the portfolio: pos.contract and pos.position, which is never
\* zero (the broker drops a closed position); negative is short.
PortfolioItem(contract, position) ==
    [contract |-> contract, position |-> position]

\* The broker's portfolio may hold a contract of the chain, one the chain
\* does not list, the underlying itself and a contract of another symbol.
PortfolioItems ==
    { PortfolioItem(Option("SPY", "20240119", 100, "C"), 3),
      PortfolioItem(Option("SPY", "20240119", 100, "C"), -2),
      PortfolioItem(Option("SPY", "20240216", 105, "P"), 3),
      PortfolioItem(Option("SPY", "20240216", 105, "P"), -2),
      PortfolioItem(Stock("SPY"), 3),
      PortfolioItem(Option("QQQ", "20240119", 100, "C"), 3) }

PortfolioContracts == { item.contract : item \in PortfolioItems }

Contracts ==
    PortfolioContracts \cup
    { Option("SPY", ChainExpirations[e], ChainStrikes[s], ChainRights[t]) :
        e \in DOMAIN ChainExpirations, s \in DOMAIN ChainStrikes,
        t \in DOMAIN ChainRights }

Greeks(delta, gamma) == [delta |-> delta, gamma |-> gamma]

\* tickers[0].modelGreeks of a contract: None, or its delta and gamma.
\* (A contract of another symbol is never asked for.)
TickerChoices(contract) ==
    IF contract.symbol # "SPY" THEN {None}
    ELSE IF contract.secType = "STK" THEN {None, Some(Greeks(100, 0))}
    ELSE IF contract.right = "C"
         THEN {Some(Greeks(0, 0)), Some(Greeks(1, 0)), Some(Greeks(4, 1))}
         ELSE {None, Some(Greeks(-3, 1))}

\* Every answer of the market-data requests of one planning call.
TickerSets ==
    { f \in [Contracts -> UNION {TickerChoices(c) : c \in Contracts}] :
        \A c \in Contracts : f[c] \in TickerChoices(c) }

\* Every content of the broker's portfolio, in its order, one item a contract.
RECURSIVE PortfoliosOfLen(_)
PortfoliosOfLen(n) ==
    IF n = 0 THEN { <<>> }
    ELSE { Append(p, item) :
             p \in PortfoliosOfLen(n - 1), item \in PortfolioItems }

DistinctContracts(p) ==
    \A i, j \in DOMAIN p : i # j => p[i].contract # p[j].contract

Portfolios ==
    { p \in UNION { PortfoliosOfLen(n) : n \in 0..MaxPositions } :
        DistinctContracts(p) }

\* -------------------------------------------------------- pure arithmetic

Abs(x) == IF x < 0 THEN -x ELSE x

Min(a, b) == IF a <= b THEN a ELSE b

Sign(x) == IF x < 0 THEN -1 ELSE IF x > 0 THEN 1 ELSE 0

\* int(a / b) floored instead of truncated (what // would give).
IntOfQuotientFloor(a, b) ==
    IF b > 0 THEN a \div b ELSE (-a) \div (-b)

\* int(a / b) for b # 0: Python's int() of a float truncates toward zero.
IntOfQuotient(a, b) ==
    Sign(a) * Sign(b) * (Abs(a) \div Abs(b))

\* list.remove(x): the list without its first element equal to x.
RECURSIVE ListRemove(_, _)
ListRemove(list, x) ==
    IF list = <<>> THEN <<>>
    ELSE IF Head(list) = x THEN Tail(list)
    ELSE <<Head(list)>> \o ListRemove(Tail(list), x)

\* ---------------------------------------------------- restriction registry

\* The test with `or` between the three matches in place of `and`.
RuleMatchesAny(rule, strike, expiration, option_type) ==
    LET strike_match == rule[1] = None \/ Some(strike) = rule[1]
        expiration_match == rule[2] = None \/ Some(expiration) = rule[2]
        type_match == rule[3] = None \/ Some(option_type) = rule[3]
    IN  strike_match \/ expiration_match \/ type_match

\* One rule against one combination: each field None or equal.
RuleMatches(rule, strike, expiration, option_type) ==
    LET strike_match == rule[1] = None \/ Some(strike) = rule[1]
        expiration_match == rule[2] = None \/ Some(expiration) = rule[2]
        type_match == rule[3] = None \/ Some(option_type) = rule[3]
    IN  strike_match /\ expiration_match /\ type_match

\* The for loop of is_allowed_option over the set, in some order.
RECURSIVE is_allowed_option(_, _, _, _)
is_allowed_option(rules, strike, expiration, option_type) ==
    IF rules = {} THEN TRUE
    ELSE LET rule == CHOOSE r \in rules : TRUE
         IN  IF RuleMatches(rule, strike, expiration, option_type) THEN FALSE
             ELSE is_allowed_option(rules \ {rule}, strike, expiration,
                                    option_type)

\* set.add replaced by an assignment of a fresh one-element set.
SetAddReplacing(rules, rule) == {rule}

\* set.add
SetAdd(rules, rule) == rules \cup {rule}

\* ------------------------------------------------------------------- state

VARIABLES
    delta_threshold,          \* self.delta_threshold
    restricted_combinations,  \* self.restricted_combinations
    add_calls,                \* history: the bag of the rules added so far
    query,                    \* the last is_allowed_option call and its result
    pc,                       \* where find_optimal_portfolio_adjustment stands
    portfolio,                \* ib.portfolio(): the broker's positions
    current_positions,        \* get_current_positions()
    available_options,        \* get_options_chain()
    all_possibilities,
    adjustments,
    remaining_delta,
    idx,                      \* the for loop's place in all_possibilities
    quantity,                 \* the for loop's last quantity
    best_adjustment,          \* None, or the place of the best candidate
    best_score,               \* None for float('inf')
    best_quantity,
    executed                  \* adjustments execute_adjustments has placed

registry_vars == <<delta_threshold, restricted_combinations, add_calls, query>>

call_vars ==
    <<pc, portfolio, current_positions, available_options, all_possibilities,
      adjustments, remaining_delta, idx, quantity, best_adjustment, best_score,
      best_quantity, executed>>

vars == <<registry_vars, call_vars>>

\* ------------------------------------------------- snapshots of the broker

\* The tradable flag of get_current_positions, always set.
TradableAlways(rules, contract) == TRUE

\* The tradable flag get_current_positions computes for a position's contract.
Tradable(rules, contract) ==
    IF contract.secType = "OPT"
    THEN is_allowed_option(rules, contract.strike,
                           contract.lastTradeDateOrContractMonth, contract.right)
    ELSE TRUE

\* The dictionary get_current_positions returns, in insertion order.
get_current_positions(rules, underlying_symbol, items, tickers) ==
    LET kept(pos) == /\ pos.contract.symbol = underlying_symbol
                     /\ tickers[pos.contract] # None
        mine == SelectSeq(items, kept)
    IN  [ i \in 1..Len(mine) |->
            LET greeks == tickers[mine[i].contract][1]
            IN  [contract |-> mine[i].contract,
                 quantity |-> mine[i].position,
                 delta    |-> greeks.delta * mine[i].position,
                 gamma    |-> greeks.gamma * mine[i].position,
                 tradable |-> Tradable(rules, mine[i].contract)] ]

\* _add_option_to_chain: a row for the option when the market gives its greeks.
add_option_to_chain(opt, tickers, options_data) ==
    IF tickers[opt] = None THEN options_data
    ELSE Append(options_data, [contract |-> opt,
                               delta |-> tickers[opt][1].delta,
                               gamma |-> tickers[opt][1].gamma])

\* The guard of get_options_chain on one (strike, expiration, option_type).
ChainAllows(rules, strike, expiration, option_type) ==
    is_allowed_option(rules, strike, expiration, option_type)

\* The three nested loops of get_options_chain, from place (e, s, t) on.
RECURSIVE ChainFrom(_, _, _, _, _, _, _)
ChainFrom(rules, symbol, tickers, e, s, t, options_data) ==
    IF e > Len(ChainExpirations) THEN options_data
    ELSE IF s > Len(ChainStrikes)
         THEN ChainFrom(rules, symbol, tickers, e + 1, 1, 1, options_data)
    ELSE IF t > Len(ChainRights)
         THEN ChainFrom(rules, symbol, tickers, e, s + 1, 1, options_data)
    ELSE LET expiration == ChainExpirations[e]
             strike == ChainStrikes[s]
             option_type == ChainRights[t]
             opt == Option(symbol, expiration, strike, option_type)
         IN  ChainFrom(rules, symbol, tickers, e, s, t + 1,
                 IF ChainAllows(rules, strike, expiration, option_type)
                 THEN add_option_to_chain(opt, tickers, options_data)
                 ELSE options_data)

get_options_chain(rules, symbol, tickers) ==
    ChainFrom(rules, symbol, tickers, 1, 1, 1, <<>>)

\* ------------------------------------------------------- candidate records

\* a / b where the float quotient is exact (a is a multiple of b).
Divide(a, b) == Sign(a) * Sign(b) * (Abs(a) \div Abs(b))

IsTradable(pos_info) == pos_info.tradable

\* The candidate of one tradable position.
ReduceCandidate(pos_info) ==
    LET current_qty == pos_info.quantity
        delta_per_unit == Divide(pos_info.delta, current_qty)
    IN  [contract |-> pos_info.contract,
         action |-> "REDUCE",
         max_quantity |-> Abs(current_qty),
         delta_impact_per_unit |-> -delta_per_unit,
         gamma_impact_per_unit |-> Divide(-pos_info.gamma, current_qty)]

\* The limit for a new position.
NewMaxQuantity == 100

\* The candidate of one row of the options chain.
NewCandidate(row) ==
    [contract |-> row.contract,
     action |-> "NEW",
     max_quantity |-> NewMaxQuantity,
     delta_impact_per_unit |-> row.delta,
     gamma_impact_per_unit |-> row.gamma]

\* all_possibilities as built before the greedy loop.
BuildPossibilities(positions, options) ==
    LET tradable_positions == SelectSeq(positions, IsTradable)
    IN  [ i \in 1..Len(tradable_positions) |->
            ReduceCandidate(tradable_positions[i]) ]
        \o [ i \in 1..Len(options) |-> NewCandidate(options[i]) ]

\* ------------------------------------------------------- the greedy loop

\* The quantity with // in place of int(/).
QuantityForFloored(needed_delta, pos) ==
    Min(Abs(IntOfQuotientFloor(needed_delta, pos.delta_impact_per_unit)),
        pos.max_quantity)

\* The quantity without the cap of max_quantity.
QuantityForUncapped(needed_delta, pos) ==
    Abs(IntOfQuotient(needed_delta, pos.delta_impact_per_unit))

\* How many contracts of candidate pos the loop would use.
QuantityFor(needed_delta, pos) ==
    Min(Abs(IntOfQuotient(needed_delta, pos.delta_impact_per_unit)),
        pos.max_quantity)

\* The score of using qty contracts of pos, in thousandths.
ScoreOf(remaining, qty, pos) ==
    LET delta_after == remaining - qty * pos.delta_impact_per_unit
        gamma_impact == Abs(qty * pos.gamma_impact_per_unit)
    IN  Abs(delta_after) * 20 + gamma_impact * 30 + qty * 100

\* score < best_score, best_score being None for float('inf').
ScoreLess(score, best) == best = None \/ score < best[1]

\* The update with the final else branch missing: a NEW candidate stays.
UpdatePossibilitiesKeepingNew(list, at, qty) ==
    IF list[at].action = "REDUCE"
    THEN LET used == [list[at] EXCEPT !.max_quantity = @ - qty]
             updated == [list EXCEPT ![at] = used]
         IN  IF used.max_quantity <= 0 THEN ListRemove(updated, used)
             ELSE updated
    ELSE list

\* all_possibilities after the candidate at place `at` gave qty contracts.
UpdatePossibilities(list, at, qty) ==
    IF list[at].action = "REDUCE"
    THEN LET used == [list[at] EXCEPT !.max_quantity = @ - qty]
             updated == [list EXCEPT ![at] = used]
         IN  IF used.max_quantity <= 0 THEN ListRemove(updated, used)
             ELSE updated
    ELSE ListRemove(list, list[at])

\* The adjustment recorded for qty contracts of pos.
AdjustmentOf(pos, qty) ==
    <<pos.contract, IF pos.action = "NEW" THEN qty ELSE -qty>>

\* ------------------------------------------------------------- operations

\* The hedger of main(): DeltaHedger(ib, 'SPY', ...).
underlying_symbol == "SPY"

NoCall ==
    /\ pc = "idle"
    /\ portfolio = <<>>
    /\ current_positions = <<>>
    /\ available_options = <<>>
    /\ all_possibilities = <<>>
    /\ adjustments = <<>>
    /\ remaining_delta = 0
    /\ idx = 0
    /\ quantity = 0
    /\ best_adjustment = None
    /\ best_score = None
    /\ best_quantity = 0
    /\ executed = 0

Init ==
    /\ delta_threshold \in Thresholds
    /\ restricted_combinations = {}
    /\ add_calls = EmptyBag
    /\ query = None
    /\ NoCall

\* add_restriction(strike, expiration, option_type)
add_restriction(rule) ==
    /\ pc = "idle"
    /\ BagCardinality(add_calls) < MaxAdds
    /\ restricted_combinations' = SetAdd(restricted_combinations, rule)
    /\ add_calls' = add_calls (+) SetToBag({rule})
    /\ UNCHANGED <<delta_threshold, query, call_vars>>

\* A call of is_allowed_option(strike, expiration, option_type) by a client.
IsAllowedCall(strike, expiration, option_type) ==
    /\ pc = "idle"
    /\ query' = Some([strike |-> strike, expiration |-> expiration,
                      option_type |-> option_type,
                      result |-> is_allowed_option(restricted_combinations,
                                     strike, expiration, option_type)])
    /\ UNCHANGED <<delta_threshold, restricted_combinations, add_calls,
                   call_vars>>

\* find_optimal_portfolio_adjustment(current_delta) up to its while loop.
StartCall(current_delta, items, tickers) ==
    /\ pc = "idle"
    /\ portfolio' = items
    /\ current_positions' =
           get_current_positions(restricted_combinations, underlying_symbol,
                                 items, tickers)
    /\ available_options' =
           get_options_chain(restricted_combinations, underlying_symbol, tickers)
    /\ all_possibilities' =
           BuildPossibilities(current_positions', available_options')
    /\ adjustments' = <<>>
    /\ remaining_delta' = -current_delta
    /\ pc' = "while"
    /\ UNCHANGED <<registry_vars, idx, quantity, best_adjustment, best_score,
                   best_quantity, executed>>

\* The test of the while loop, and the return when it fails.
WhileTest ==
    /\ pc = "while"
    /\ IF Abs(remaining_delta) > delta_threshold /\ all_possibilities # <<>>
       THEN /\ pc' = "for"
            /\ idx' = 1
            /\ best_adjustment' = None
            /\ best_score' = None
            /\ best_quantity' = 0
       ELSE /\ pc' = "returned"
            /\ UNCHANGED <<idx, best_adjustment, best_score, best_quantity>>
    /\ UNCHANGED <<registry_vars, portfolio, current_positions,
                   available_options, all_possibilities, adjustments,
                   remaining_delta, quantity, executed>>

\* One pass of the for loop: the candidate at idx.
ForStep ==
    /\ pc = "for"
    /\ idx <= Len(all_possibilities)
    /\ LET pos == all_possibilities[idx]
       IN  IF pos.delta_impact_per_unit = 0
           THEN \* needed_delta / 0.0 raises; the call ends with the exception
                /\ pc' = "raised"
                /\ UNCHANGED <<idx, quantity, best_adjustment, best_score,
                               best_quantity>>
           ELSE LET qty == QuantityFor(remaining_delta, pos)
                    score == ScoreOf(remaining_delta, qty, pos)
                IN  /\ quantity' = qty
                    /\ idx' = idx + 1
                    /\ pc' = "for"
                    /\ IF qty # 0 /\ ScoreLess(score, best_score)
                       THEN /\ best_score' = Some(score)
                            /\ best_adjustment' = Some(idx)
                            /\ best_quantity' = qty
                       ELSE UNCHANGED <<best_score, best_adjustment,
                                        best_quantity>>
    /\ UNCHANGED <<registry_vars, portfolio, current_positions,
                   available_options, all_possibilities, adjustments,
                   remaining_delta, executed>>

\* After the for loop: break, or record the best adjustment and update.
AfterFor ==
    /\ pc = "for"
    /\ idx > Len(all_possibilities)
    /\ IF best_adjustment = None
       THEN /\ pc' = "returned"
            /\ UNCHANGED <<adjustments, remaining_delta, all_possibilities>>
       ELSE LET pos == all_possibilities[best_adjustment[1]]
            IN  /\ adjustments' =
                       Append(adjustments, AdjustmentOf(pos, best_quantity))
                /\ remaining_delta' =
                       remaining_delta
                       - best_quantity * pos.delta_impact_per_unit
                /\ all_possibilities' =
                       UpdatePossibilities(all_possibilities,
                                           best_adjustment[1], best_quantity)
                /\ pc' = "while"
    /\ UNCHANGED <<registry_vars, portfolio, current_positions,
                   available_options, idx, quantity, best_adjustment,
                   best_score, best_quantity, executed>>

\* The broker's positions after an order of `change` contracts is filled.
PositionsAfterOrder(items, contract, change) ==
    IF \E i \in DOMAIN items : items[i].contract = contract
    THEN [ i \in DOMAIN items |->
             IF items[i].contract = contract
             THEN [items[i] EXCEPT !.position = @ + change]
             ELSE items[i] ]
    ELSE Append(items, PortfolioItem(contract, change))

\* One pass of execute_adjustments: the next adjustment as a market order.
ExecuteStep ==
    /\ pc = "returned"
    /\ executed < Len(adjustments)
    /\ LET contract == adjustments[executed + 1][1]
           qty == adjustments[executed + 1][2]
           action == IF qty > 0 THEN "BUY" ELSE "SELL"
           change == IF action = "BUY" THEN Abs(qty) ELSE -Abs(qty)
       IN  portfolio' = PositionsAfterOrder(portfolio, contract, change)
    /\ executed' = executed + 1
    /\ UNCHANGED <<registry_vars, pc, current_positions, available_options,
                   all_possibilities, adjustments, remaining_delta, idx,
                   quantity, best_adjustment, best_score, best_quantity>>

\* The caller is done with the adjustments: none placed, or all of them.
Finish ==
    /\ pc = "returned"
    /\ executed = 0 \/ executed = Len(adjustments)
    /\ pc' = "idle"
    /\ portfolio' = <<>>
    /\ current_positions' = <<>>
    /\ available_options' = <<>>
    /\ all_possibilities' = <<>>
    /\ adjustments' = <<>>
    /\ remaining_delta' = 0
    /\ idx' = 0
    /\ quantity' = 0
    /\ best_adjustment' = None
    /\ best_score' = None
    /\ best_quantity' = 0
    /\ executed' = 0
    /\ UNCHANGED registry_vars

\* The hedger is given a rule it does not hold yet (RegistrySpec is where a
\* rule is added again).
AddRule ==
    \E rule \in HedgeRules \ restricted_combinations : add_restriction(rule)

\* A planning call, on some state of the broker and of the market.
Plan ==
    /\ pc = "idle"
    /\ \E current_delta \in CurrentDeltas, items \in Portfolios,
          tickers \in TickerSets : StartCall(current_delta, items, tickers)

\* The hedger: rules are added between planning calls.
Next ==
    \/ AddRule
    \/ Plan
    \/ WhileTest
    \/ ForStep
    \/ AfterFor
    \/ ExecuteStep
    \/ Finish

Spec == Init /\ [][Next]_vars

\* The registry alone, with every rule and every question.
AddAnyRule == \E rule \in AllRules : add_restriction(rule)

AskAny == \E q \in AllQueries : IsAllowedCall(q[1], q[2], q[3])

RegistryNext ==
    \/ AddAnyRule
    \/ AskAny

\* The registry of a hedger built with the default threshold.
RegistryInit == Init /\ delta_threshold = 2

RegistrySpec == RegistryInit /\ [][RegistryNext]_vars

\* ------------------------------------------------- properties: the registry

\* A rule's field against a value, as the contract of is_allowed_option states it.
FieldAgrees(field, value) == field = None \/ field = Some(value)

\* Some stored rule agrees with the combination in all three dimensions.
Forbidden(rules, strike, expiration, option_type) ==
    \E rule \in rules : /\ FieldAgrees(rule[1], strike)
                        /\ FieldAgrees(rule[2], expiration)
                        /\ FieldAgrees(rule[3], option_type)

\* The answer of is_allowed_option for every question, as a function.
Answers(rules) ==
    [ q \in AllQueries |-> is_allowed_option(rules, q[1], q[2], q[3]) ]

(***************************************************************************)
(* C1.  For every content of the registry and every concrete (strike,      *)
(* expiration, option_type), is_allowed_option returns false exactly when  *)
(* some stored rule matches in all three dimensions, a field matching when *)
(* it is None or equal.  So the empty registry allows everything, and a    *)
(* rule with a wildcard forbids every combination that agrees with its     *)
(* other fields, whatever the value in the wildcard's dimension.  The last *)
(* recorded call gave the answer of the registry it was asked of or, the   *)
(* registry only growing, a refusal that still stands.                     *)
(***************************************************************************)
C1_IsAllowedExactlyUnlessRuleMatches ==
    /\ \A q \in AllQueries :
           is_allowed_option(restricted_combinations, q[1], q[2], q[3])
             = ~Forbidden(restricted_combinations, q[1], q[2], q[3])
    /\ restricted_combinations = {} =>
           \A q \in AllQueries :
               is_allowed_option(restricted_combinations, q[1], q[2], q[3])
    /\ \A rule \in restricted_combinations, q \in AllQueries :
           ( /\ rule[1] # None => rule[1] = Some(q[1])
             /\ rule[2] # None => rule[2] = Some(q[2])
             /\ rule[3] # None => rule[3] = Some(q[3]) )
           => ~is_allowed_option(restricted_combinations, q[1], q[2], q[3])
    /\ query # None /\ ~query[1].result =>
           Forbidden(restricted_combinations, query[1].strike,
                     query[1].expiration, query[1].option_type)

\* A rule with a wildcard type and a rule with a wildcard strike are stored;
\* both types are refused at the first rule's strike and date, another strike
\* on another date is allowed, and a call was answered with a refusal.
C1_Witness ==
    /\ restricted_combinations =
           { <<Some(100), Some("20240119"), None>>,
             <<None, Some("20240216"), Some("P")>> }
    /\ ~is_allowed_option(restricted_combinations, 100, "20240119", "C")
    /\ ~is_allowed_option(restricted_combinations, 100, "20240119", "P")
    /\ ~is_allowed_option(restricted_combinations, 105, "20240216", "P")
    /\ is_allowed_option(restricted_combinations, 105, "20240119", "P")
    /\ is_allowed_option(restricted_combinations, 105, "20240216", "C")
    /\ query # None
    /\ query[1].strike = 100 /\ query[1].option_type = "C"
    /\ ~query[1].result

(***************************************************************************)
(* C8.  add_restriction is idempotent: a step that adds a rule which was   *)
(* added before leaves the stored set of rules as it was, and with it the  *)
(* answer of is_allowed_option to every question.                          *)
(***************************************************************************)
C8_AddRestrictionIdempotent ==
    [][ \A rule \in AllRules :
          ( /\ BagIn(rule, add_calls)
            /\ add_calls' = add_calls (+) SetToBag({rule}) )
          => /\ restricted_combinations' = restricted_combinations
             /\ Answers(restricted_combinations')
                  = Answers(restricted_combinations) ]_vars

\* One rule was added twice and another once; both are stored, once each.
C8_Witness ==
    /\ \E rule \in BagToSet(add_calls) : CopiesIn(rule, add_calls) = 2
    /\ BagCardinality(add_calls) = 3
    /\ Cardinality(restricted_combinations) = 2
    /\ BagToSet(add_calls) = restricted_combinations

\* ------------------------------------------------ properties: the optimizer

\* The candidates as built at the start of the call in progress.
InitialPossibilities == BuildPossibilities(current_positions, available_options)

\* An adjustment of a REDUCE candidate is negative, of a NEW one positive.
IsReduceOf(adjustment, contract) ==
    adjustment[1] = contract /\ adjustment[2] < 0

IsNewOf(adjustment, contract) ==
    adjustment[1] = contract /\ adjustment[2] > 0

\* The contracts the REDUCE adjustments for `contract` sell in all.
RECURSIVE ReducedIn(_, _)
ReducedIn(list, contract) ==
    IF list = <<>> THEN 0
    ELSE (IF IsReduceOf(Head(list), contract) THEN -Head(list)[2] ELSE 0)
         + ReducedIn(Tail(list), contract)

OptionForbidden(contract) ==
    /\ contract.secType = "OPT"
    /\ Forbidden(restricted_combinations, contract.strike,
                 contract.lastTradeDateOrContractMonth, contract.right)

(***************************************************************************)
(* C2.  The adjustments respect the registry: no adjustment, REDUCE or     *)
(* NEW, names an option whose (strike, expiration, type) is forbidden by   *)
(* the rules of the call.  A held position is marked tradable exactly when *)
(* it is no forbidden option (a stock always is), no candidate and no row  *)
(* of the chain is a forbidden option.                                     *)
(***************************************************************************)
C2_AdjustmentsRespectRegistry ==
    /\ \A i \in DOMAIN adjustments : ~OptionForbidden(adjustments[i][1])
    /\ \A i \in DOMAIN all_possibilities :
           ~OptionForbidden(all_possibilities[i].contract)
    /\ \A i \in DOMAIN available_options :
           ~OptionForbidden(available_options[i].contract)
    /\ \A i \in DOMAIN current_positions :
           current_positions[i].tradable
             = ~OptionForbidden(current_positions[i].contract)

\* A call returned a REDUCE of a held option and a NEW adjustment while a held
\* option was forbidden (and marked so) and the chain's call was forbidden.
C2_Witness ==
    /\ pc = "returned"
    /\ \E i \in DOMAIN current_positions :
           /\ ~current_positions[i].tradable
           /\ OptionForbidden(current_positions[i].contract)
    /\ OptionForbidden(Option("SPY", "20240119", 100, "C"))
    /\ \E i \in DOMAIN adjustments :
           adjustments[i][2] < 0 /\ adjustments[i][1].secType = "OPT"
    /\ \E i \in DOMAIN adjustments : adjustments[i][2] > 0

(***************************************************************************)
(* C3.  No adjustment is larger than its candidate's original              *)
(* max_quantity (|position| for REDUCE, 100 for NEW), the REDUCE           *)
(* adjustments of one position sum to at most |position|, and a NEW        *)
(* candidate is the source of at most one adjustment.                      *)
(***************************************************************************)
C3_QuantitiesWithinOriginalMax ==
    \A i \in DOMAIN adjustments :
        LET contract == adjustments[i][1]
            change == adjustments[i][2]
        IN  /\ change # 0
            /\ change > 0 =>
                 /\ change <= 100
                 /\ \A j \in DOMAIN adjustments :
                        IsNewOf(adjustments[j], contract) => j = i
            /\ change < 0 =>
                 \E k \in DOMAIN current_positions :
                     /\ current_positions[k].contract = contract
                     /\ current_positions[k].tradable
                     /\ -change <= Abs(current_positions[k].quantity)
                     /\ ReducedIn(adjustments, contract)
                          <= Abs(current_positions[k].quantity)

\* A call returned a NEW adjustment of the full 100 contracts and a REDUCE
\* adjustment of a whole position.
C3_Witness ==
    /\ pc = "returned"
    /\ \E i \in DOMAIN adjustments : adjustments[i][2] = 100
    /\ \E i \in DOMAIN adjustments, k \in DOMAIN current_positions :
           /\ IsReduceOf(adjustments[i], current_positions[k].contract)
           /\ -adjustments[i][2] = Abs(current_positions[k].quantity)

(***************************************************************************)
(* C4.  Monotonic improvement: an accepted iteration never leaves          *)
(* |remaining_delta| larger than it found it.                              *)
(***************************************************************************)
C4_MonotonicImprovement ==
    [][ (pc = "for" /\ pc' = "while")
          => Abs(remaining_delta') <= Abs(remaining_delta) ]_vars

(***************************************************************************)
(* C5.  The greedy loop accepts at most as many iterations as there were   *)
(* candidates at the start of the call: the adjustments are no more than   *)
(* the tradable positions plus the rows of the chain.                      *)
(***************************************************************************)
C5_IterationsAtMostCandidates ==
    Len(adjustments) <= Len(InitialPossibilities)

(***************************************************************************)
(* C6.  A candidate whose delta impact per unit is zero is skipped: a call *)
(* with such a candidate never ends with an exception, and no adjustment   *)
(* it returns uses that candidate.                                         *)
(***************************************************************************)
C6_ZeroImpactSkipped ==
    \A i \in DOMAIN InitialPossibilities :
        LET pos == InitialPossibilities[i]
        IN  pos.delta_impact_per_unit = 0 =>
              /\ pc # "raised"
              /\ \A j \in DOMAIN adjustments :
                     adjustments[j] # AdjustmentOf(pos, Abs(adjustments[j][2]))

\* max_quantity summed over the candidates left.
RECURSIVE TotalMaxQuantity(_)
TotalMaxQuantity(list) ==
    IF list = <<>> THEN 0
    ELSE Head(list).max_quantity + TotalMaxQuantity(Tail(list))

TruncatedMagnitude(a, b) ==
    CHOOSE k \in 0..Abs(a) : k * Abs(b) <= Abs(a) /\ Abs(a) < (k + 1) * Abs(b)

\* floor(a / b), rounding toward negative infinity, by its inequalities.
FloorOfQuotient(a, b) ==
    CHOOSE n \in (-Abs(a) - 1)..Abs(a) :
        IF b > 0 THEN n * b <= a /\ a < (n + 1) * b
                 ELSE n * b >= a /\ a > (n + 1) * b

(***************************************************************************)
(* C9 (as claimed).  For a candidate of non-zero delta impact the quantity *)
(* considered is min(|floor(remaining_delta / delta_impact_per_unit)|,     *)
(* max_quantity), floor rounding toward negative infinity.                 *)
(***************************************************************************)
C9_QuantityIsFloor ==
    [][ (pc = "for" /\ idx' = idx + 1)
          => quantity' =
               Min(Abs(FloorOfQuotient(remaining_delta,
                       all_possibilities[idx].delta_impact_per_unit)),
                   all_possibilities[idx].max_quantity) ]_vars

(***************************************************************************)
(* C9 (amended).  For a candidate of non-zero delta impact the quantity    *)
(* considered is min(|remaining_delta / delta_impact_per_unit| truncated   *)
(* toward zero, max_quantity).                                             *)
(***************************************************************************)
C9_QuantityIsTruncation ==
    [][ (pc = "for" /\ idx' = idx + 1)
          => quantity' =
               Min(TruncatedMagnitude(remaining_delta,
                       all_possibilities[idx].delta_impact_per_unit),
                   all_possibilities[idx].max_quantity) ]_vars

\* The loop considered a candidate whose impact has the sign opposite to
\* remaining_delta and does not divide it: truncation and floor differ.
C9_Witness ==
    /\ pc = "for"
    /\ idx > 1
    /\ LET pos == all_possibilities[idx - 1]
       IN  /\ pos.delta_impact_per_unit * remaining_delta < 0
           /\ quantity * Abs(pos.delta_impact_per_unit) < Abs(remaining_delta)
           /\ quantity >= 1
           /\ quantity < pos.max_quantity
           /\ quantity = QuantityFor(remaining_delta, pos)

(***************************************************************************)
(* C10.  A REDUCE adjustment reduces the held position: the order placed   *)
(* for it leaves the position no larger in magnitude and on the same side  *)
(* of zero (or flat).                                                      *)
(***************************************************************************)
C10_ReduceReducesPosition ==
    [][ (pc = "returned" /\ executed' = executed + 1
         /\ adjustments[executed + 1][2] < 0)
          => \A i \in DOMAIN portfolio :
                 portfolio[i].contract = adjustments[executed + 1][1] =>
                   /\ Abs(portfolio'[i].position) <= Abs(portfolio[i].position)
                   /\ portfolio'[i].position * portfolio[i].position >= 0 ]_vars

\* The loop of find_optimal_portfolio_adjustment runs on once it is entered.
FairSpec ==
    Spec /\ WF_vars(WhileTest) /\ WF_vars(ForStep) /\ WF_vars(AfterFor)

=============================================================================
